---- MODULE Spec2Model ----
(***************************************************************************)
(* Model of the file uploader in src/main.go.                              *)
(*                                                                         *)
(*   Spec    the transfer pipeline: func main, one action per statement    *)
(*           group, pc = position in main.  The file system, the multipart *)
(*           writer over a bytes.Buffer, the HTTP client and the progress  *)
(*           bars are the environment: every call that returns an error    *)
(*           in the source may fail here, and the server chooses status,   *)
(*           Content-Length and body.                                      *)
(*   SpecPR  ProgressReader.Read (src/main.go:173-191) over an arbitrary   *)
(*           underlying io.Reader.                                         *)
(*                                                                         *)
(* Modelling conventions                                                   *)
(*   - a path / file name is a sequence of one-character strings;          *)
(*   - the multipart body is a sequence of tokens (delimiter line, header  *)
(*     line, blank line, one token per content byte, closing delimiter);   *)
(*   - the source file does not change between Stat and the reads;         *)
(*   - float64(read)/float64(Size)*100 is kept as its integer part.        *)
(***************************************************************************)
EXTENDS Integers, Sequences, FiniteSets, TLC

\* ------------------------------------------------------------------ bounds
MaxPathLen == 2      \* longest -file argument
MaxFileLen == 2      \* longest source file, in bytes
BufLen     == 2      \* most bytes one Read call returns
MaxRespLen == 2      \* longest response body, in bytes
MaxSize    == 2      \* largest ProgressReader.Size
MaxSrc     == 3      \* most bytes the source under a ProgressReader holds
MaxReads   == 4      \* most Read calls on one ProgressReader

\* --------------------------------------------------------------- constants
StatusOK == 200      \* http.StatusOK

PathChars   == {"/", "a"}
Bytes       == {0, 255}
StatusCodes == {200, 201, 204, 404, 500}

SeqsUpTo(S, n) == UNION {[1..k -> S] : k \in 0..n}

Min(S) == CHOOSE x \in S : \A y \in S : x <= y

StepOrder == <<"Opening", "Encoding", "Sending", "Receiving", "Reporting">>

VARIABLES
  \* ---- pipeline (func main)
  pc,            \* position in main
  filePath,      \* *filePath
  urlGiven,      \* *serverURL # ""
  steps,         \* pipeline steps entered so far, in order
  fileContent,   \* bytes of the opened file
  fileOpened,    \* os.Open returned a handle
  fileClosed,    \* file.Close() has run
  filePos,       \* read offset of the handle
  fileSize,      \* fileInfo.Size()
  fileName,      \* filepath.Base(*filePath)
  body,          \* the bytes.Buffer behind the multipart writer
  barCount,      \* bytes the upload bar has received
  requests,      \* calls of client.Do
  respObtained,  \* client.Do returned a response
  respClosed,    \* resp.Body.Close() has run
  statusCode,    \* resp.StatusCode
  contentLength, \* resp.ContentLength
  respData,      \* bytes the server sends as the response body
  respPos,       \* bytes of respData read so far
  metered,       \* "none" | "metered" | "plain": how the body is read
  bar2Count,     \* bytes the download bar has received
  bar2Updates,   \* updates of the download bar
  responseBody,  \* responseBody accumulated by io.ReadAll
  reported,      \* "" | "success" | "failure"
  printedBody,   \* bytes printed as the server's answer
  errKind,       \* "" or the failure that was printed
  exitCode,      \* -1 while running, else the process exit status
  \* ---- ProgressReader
  prSize,        \* pr.Size
  prHasSink,     \* pr.OnProgress # nil
  prRead,        \* pr.read
  prPrevRead,    \* pr.read before the last Read
  prSinkCalls,   \* calls of pr.OnProgress
  prLastPct,     \* last value passed to pr.OnProgress (-1: none)
  prPrevPct,     \* the value passed before that (-1: none)
  srcTotal,      \* bytes the underlying source holds in all
  srcLeft,       \* bytes the underlying source has not delivered yet
  srcN, srcErr,  \* what the underlying Read returned last
  retN, retErr,  \* what ProgressReader.Read returned last
  prCalls        \* Read calls so far

pipeVars == <<pc, filePath, urlGiven, steps, fileContent, fileOpened, fileClosed,
              filePos, fileSize, fileName, body, barCount, requests, respObtained,
              respClosed, statusCode, contentLength, respData, respPos, metered,
              bar2Count, bar2Updates, responseBody, reported, printedBody,
              errKind, exitCode>>

prVars == <<prSize, prHasSink, prRead, prPrevRead, prSinkCalls, prLastPct,
            prPrevPct, srcTotal, srcLeft, srcN, srcErr, retN, retErr, prCalls>>

vars == <<pipeVars, prVars>>

\* ================================================================ helpers

\* filepath.Base on a slash-separated path
StripTrailing(p) ==
  LET keep == {i \in 1..Len(p) : p[i] # "/"}
  IN  IF keep = {} THEN <<>> ELSE SubSeq(p, 1, CHOOSE i \in keep : \A j \in keep : j <= i)

Base(p) ==
  IF p = <<>> THEN <<".">>
  ELSE LET q    == StripTrailing(p)
           seps == {i \in 1..Len(q) : q[i] = "/"}
           last == IF seps = {} THEN 0 ELSE CHOOSE i \in seps : \A j \in seps : j <= i
       IN  IF q = <<>> THEN <<"/">> ELSE SubSeq(q, last + 1, Len(q))

\* tokens of the multipart body
Tok(k, n, s, v) == [k |-> k, n |-> n, s |-> s, v |-> v]

\* writer.CreateFormFile("file", fileName): delimiter line, the two header
\* lines, and the blank line that ends the part header
FormFileHeader(name) ==
  << Tok("delim", "", <<>>, 0),
     Tok("disposition", "file", name, 0),
     Tok("ctype", "application/octet-stream", <<>>, 0),
     Tok("blank", "", <<>>, 0) >>

\* part.Write(p[:n]) as io.Copy calls it
PartWriteSkip(b, chunk) ==
  b \o [i \in 1..(Len(chunk) - 1) |-> Tok("byte", "", <<>>, chunk[i + 1])]

PartWrite(b, chunk) ==
  b \o [i \in 1..Len(chunk) |-> Tok("byte", "", <<>>, chunk[i])]

\* writer.Close(): the closing delimiter
WriterClose(b) == Append(b, Tok("close", "", <<>>, 0))

\* io.TeeReader: the n bytes just read are written to the bar
TeeWriteNone(count, n) == count

TeeWrite(count, n) == count + n

\* contentLength > 0 selects the metered reader
UseMeterNonNeg(cl) == cl >= 0

UseMeter(cl) == cl > 0

\* resp.StatusCode == http.StatusOK
IsSuccess(code) == code = StatusOK

\* main returns after the report: exit status 0 whatever the status code
ExitAfterReportStrict(code) == IF code = StatusOK THEN 0 ELSE 1

ExitAfterReport(code) == 0

\* where main goes when client.Do fails: os.Exit(1)
SendFailPcRetry == "newRequest"

SendFailPc == "exited"

\* ============================================================== pipeline

InitPipe ==
  /\ pc = "start"
  /\ filePath \in SeqsUpTo(PathChars, MaxPathLen)
  /\ urlGiven \in BOOLEAN
  /\ steps = <<>>
  /\ fileContent = <<>>
  /\ fileOpened = FALSE
  /\ fileClosed = FALSE
  /\ filePos = 0
  /\ fileSize = 0
  /\ fileName = <<>>
  /\ body = <<>>
  /\ barCount = 0
  /\ requests = 0
  /\ respObtained = FALSE
  /\ respClosed = FALSE
  /\ statusCode = 0
  /\ contentLength = 0
  /\ respData = <<>>
  /\ respPos = 0
  /\ metered = "none"
  /\ bar2Count = 0
  /\ bar2Updates = 0
  /\ responseBody = <<>>
  /\ reported = ""
  /\ printedBody = <<>>
  /\ errKind = ""
  /\ exitCode = -1

\* fmt.Printf(<error>); os.Exit(1).  os.Exit does not run deferred calls.
Fail(kind, nextPc) ==
  /\ errKind' = kind
  /\ exitCode' = 1
  /\ pc' = nextPc
  /\ UNCHANGED <<fileClosed, respClosed>>

CheckArgs ==
  /\ pc = "start"
  /\ IF filePath = <<>> \/ ~urlGiven
       THEN Fail("usage", "exited")
       ELSE /\ pc' = "open"
            /\ UNCHANGED <<errKind, exitCode, fileClosed, respClosed>>
  /\ UNCHANGED <<filePath, urlGiven, steps, fileContent, fileOpened, filePos,
                 fileSize, fileName, body, barCount, requests, respObtained,
                 statusCode, contentLength, respData, respPos, metered,
                 bar2Count, bar2Updates, responseBody, reported, printedBody>>

OpenFile ==
  /\ pc = "open"
  /\ steps' = Append(steps, "Opening")
  /\ \/ /\ \E c \in SeqsUpTo(Bytes, MaxFileLen) : fileContent' = c
        /\ fileOpened' = TRUE
        /\ pc' = "stat"
        /\ UNCHANGED <<errKind, exitCode, fileClosed, respClosed>>
     \/ /\ Fail("open", "exited")
        /\ UNCHANGED <<fileContent, fileOpened>>
  /\ UNCHANGED <<filePath, urlGiven, filePos, fileSize, fileName, body, barCount,
                 requests, respObtained, statusCode, contentLength, respData,
                 respPos, metered, bar2Count, bar2Updates, responseBody,
                 reported, printedBody>>

StatFile ==
  /\ pc = "stat"
  /\ \/ /\ fileSize' = Len(fileContent)
        /\ fileName' = Base(filePath)
        /\ pc' = "createPart"
        /\ UNCHANGED <<errKind, exitCode, fileClosed, respClosed>>
     \/ /\ Fail("stat", "exited")
        /\ UNCHANGED <<fileSize, fileName>>
  /\ UNCHANGED <<filePath, urlGiven, steps, fileContent, fileOpened, filePos,
                 body, barCount, requests, respObtained, statusCode,
                 contentLength, respData, respPos, metered, bar2Count,
                 bar2Updates, responseBody, reported, printedBody>>

CreateFormFile ==
  /\ pc = "createPart"
  /\ steps' = Append(steps, "Encoding")
  /\ \/ /\ body' = body \o FormFileHeader(fileName)
        /\ pc' = "copy"
        /\ UNCHANGED <<errKind, exitCode, fileClosed, respClosed>>
     \/ /\ Fail("createPart", "exited")
        /\ UNCHANGED body
  /\ UNCHANGED <<filePath, urlGiven, fileContent, fileOpened, filePos, fileSize,
                 fileName, barCount, requests, respObtained, statusCode,
                 contentLength, respData, respPos, metered, bar2Count,
                 bar2Updates, responseBody, reported, printedBody>>

\* one turn of io.Copy(part, io.TeeReader(file, bar))
CopyRead ==
  /\ pc = "copy"
  /\ \/ \E n \in 1..BufLen :
          /\ n <= Len(fileContent) - filePos
          /\ body' = PartWrite(body, SubSeq(fileContent, filePos + 1, filePos + n))
          /\ barCount' = TeeWrite(barCount, n)
          /\ filePos' = filePos + n
          /\ UNCHANGED <<pc, errKind, exitCode, fileClosed, respClosed>>
     \/ /\ filePos = Len(fileContent)
        /\ pc' = "closeWriter"
        /\ UNCHANGED <<body, barCount, filePos, errKind, exitCode, fileClosed, respClosed>>
     \/ /\ Fail("read", "exited")
        /\ UNCHANGED <<body, barCount, filePos>>
  /\ UNCHANGED <<filePath, urlGiven, steps, fileContent, fileOpened, fileSize,
                 fileName, requests, respObtained, statusCode, contentLength,
                 respData, respPos, metered, bar2Count, bar2Updates,
                 responseBody, reported, printedBody>>

CloseWriter ==
  /\ pc = "closeWriter"
  /\ body' = WriterClose(body)
  /\ pc' = "newRequest"
  /\ UNCHANGED <<filePath, urlGiven, steps, fileContent, fileOpened, fileClosed,
                 filePos, fileSize, fileName, barCount, requests, respObtained,
                 respClosed, statusCode, contentLength, respData, respPos,
                 metered, bar2Count, bar2Updates, responseBody, reported,
                 printedBody, errKind, exitCode>>

NewRequest ==
  /\ pc = "newRequest"
  /\ steps' = Append(steps, "Sending")
  /\ \/ /\ pc' = "send"
        /\ UNCHANGED <<errKind, exitCode, fileClosed, respClosed>>
     \/ Fail("newRequest", "exited")
  /\ UNCHANGED <<filePath, urlGiven, fileContent, fileOpened, filePos, fileSize,
                 fileName, body, barCount, requests, respObtained, statusCode,
                 contentLength, respData, respPos, metered, bar2Count,
                 bar2Updates, responseBody, reported, printedBody>>

\* client.Do(req).  A declared Content-Length >= 0 is the length of the body
\* the transport hands out; -1 is "unknown".
SendRequest ==
  /\ pc = "send"
  /\ requests' = requests + 1
  /\ \/ /\ \E code \in StatusCodes, cl \in -1..MaxRespLen, d \in SeqsUpTo(Bytes, MaxRespLen) :
             /\ cl >= 0 => Len(d) = cl
             /\ statusCode' = code
             /\ contentLength' = cl
             /\ respData' = d
        /\ respObtained' = TRUE
        /\ pc' = "receive"
        /\ UNCHANGED <<errKind, exitCode, fileClosed, respClosed>>
     \/ /\ Fail("send", SendFailPc)
        /\ UNCHANGED <<statusCode, contentLength, respData, respObtained>>
  /\ UNCHANGED <<filePath, urlGiven, steps, fileContent, fileOpened, filePos,
                 fileSize, fileName, body, barCount, respPos, metered,
                 bar2Count, bar2Updates, responseBody, reported, printedBody>>

BeginReceive ==
  /\ pc = "receive"
  /\ steps' = Append(steps, "Receiving")
  /\ metered' = IF UseMeter(contentLength) THEN "metered" ELSE "plain"
  /\ pc' = "readResp"
  /\ UNCHANGED <<filePath, urlGiven, fileContent, fileOpened, fileClosed,
                 filePos, fileSize, fileName, body, barCount, requests,
                 respObtained, respClosed, statusCode, contentLength, respData,
                 respPos, bar2Count, bar2Updates, responseBody, reported,
                 printedBody, errKind, exitCode>>

\* one Read of io.ReadAll, through progressbar.Reader when metered: the
\* reader adds the n bytes of every Read to the bar.
ReadResp ==
  /\ pc = "readResp"
  /\ \E n \in 0..BufLen, e \in {"nil", "EOF", "fail"} :
       /\ n <= Len(respData) - respPos
       /\ e = "nil" => n > 0
       /\ e = "EOF" => n = Len(respData) - respPos
       /\ respPos' = respPos + n
       /\ responseBody' = responseBody \o SubSeq(respData, respPos + 1, respPos + n)
       /\ IF metered = "metered"
            THEN /\ bar2Count' = bar2Count + n
                 /\ bar2Updates' = bar2Updates + 1
            ELSE UNCHANGED <<bar2Count, bar2Updates>>
       /\ CASE e = "nil"  -> UNCHANGED <<pc, errKind, exitCode, fileClosed, respClosed>>
            [] e = "EOF"  -> /\ pc' = "report"
                             /\ UNCHANGED <<errKind, exitCode, fileClosed, respClosed>>
            [] e = "fail" -> Fail("readResp", "exited")
  /\ UNCHANGED <<filePath, urlGiven, steps, fileContent, fileOpened, filePos,
                 fileSize, fileName, body, barCount, requests, respObtained,
                 statusCode, contentLength, respData, metered, reported,
                 printedBody>>

Report ==
  /\ pc = "report"
  /\ steps' = Append(steps, "Reporting")
  /\ reported' = IF IsSuccess(statusCode) THEN "success" ELSE "failure"
  /\ printedBody' = responseBody
  /\ pc' = "return"
  /\ UNCHANGED <<filePath, urlGiven, fileContent, fileOpened, fileClosed,
                 filePos, fileSize, fileName, body, barCount, requests,
                 respObtained, respClosed, statusCode, contentLength, respData,
                 respPos, metered, bar2Count, bar2Updates, responseBody,
                 errKind, exitCode>>

\* main returns: the deferred resp.Body.Close() and file.Close() run
ReturnMain ==
  /\ pc = "return"
  /\ respClosed' = TRUE
  /\ fileClosed' = TRUE
  /\ exitCode' = ExitAfterReport(statusCode)
  /\ pc' = "done"
  /\ UNCHANGED <<filePath, urlGiven, steps, fileContent, fileOpened, filePos,
                 fileSize, fileName, body, barCount, requests, respObtained,
                 statusCode, contentLength, respData, respPos, metered,
                 bar2Count, bar2Updates, responseBody, reported, printedBody,
                 errKind>>

PRIdle ==
  /\ prSize = 0 /\ prHasSink = FALSE /\ prRead = 0 /\ prPrevRead = 0
  /\ prSinkCalls = 0 /\ prLastPct = -1 /\ prPrevPct = -1
  /\ srcTotal = 0 /\ srcLeft = 0 /\ srcN = 0 /\ srcErr = "nil"
  /\ retN = 0 /\ retErr = "nil" /\ prCalls = 0

Init == InitPipe /\ PRIdle

Next ==
  \/ (CheckArgs /\ UNCHANGED prVars)
  \/ (OpenFile /\ UNCHANGED prVars)
  \/ (StatFile /\ UNCHANGED prVars)
  \/ (CreateFormFile /\ UNCHANGED prVars)
  \/ (CopyRead /\ UNCHANGED prVars)
  \/ (CloseWriter /\ UNCHANGED prVars)
  \/ (NewRequest /\ UNCHANGED prVars)
  \/ (SendRequest /\ UNCHANGED prVars)
  \/ (BeginReceive /\ UNCHANGED prVars)
  \/ (ReadResp /\ UNCHANGED prVars)
  \/ (Report /\ UNCHANGED prVars)
  \/ (ReturnMain /\ UNCHANGED prVars)

Spec == Init /\ [][Next]_vars

\* ======================================================== ProgressReader

\* pr.read += int64(n): added on every Read, whatever err is
CountOnSuccess(read, n, e) == IF e = "nil" THEN read + n ELSE read

Count(read, n, e) == read + n

\* pr.OnProgress != nil && pr.Size > 0
EmitsNonNeg(hasSink, size) == hasSink /\ size >= 0

Emits(hasSink, size) == hasSink /\ size > 0

\* float64(pr.read) / float64(pr.Size) * 100, integer part; a division by
\* zero is not finite in float64 and is written -2
Pct(read, size) == IF size = 0 THEN -2 ELSE (read * 100) \div size

\* return n, err
ReadReturn(n, e) == <<n, e>>

PRStart ==
  /\ prSize \in -1..MaxSize
  /\ prHasSink \in BOOLEAN
  /\ srcTotal \in 0..MaxSrc
  /\ srcLeft = srcTotal
  /\ prRead = 0 /\ prPrevRead = 0
  /\ prSinkCalls = 0 /\ prLastPct = -1 /\ prPrevPct = -1
  /\ srcN = 0 /\ srcErr = "nil"
  /\ retN = 0 /\ retErr = "nil" /\ prCalls = 0

\* ProgressReader.Read(p) with len(p) = buf.  The underlying Read returns
\* n <= len(p) bytes and nil, io.EOF (possibly together with the last
\* bytes) or another error.
PRRead ==
  /\ retErr = "nil"
  /\ prCalls < MaxReads
  /\ \E buf \in 0..BufLen, n \in 0..BufLen, e \in {"nil", "EOF", "fail"} :
       /\ n <= buf
       /\ n <= srcLeft
       /\ e = "EOF" => n = srcLeft
       /\ srcN' = n
       /\ srcErr' = e
       /\ srcLeft' = srcLeft - n
       /\ prPrevRead' = prRead
       /\ prRead' = Count(prRead, n, e)
       /\ IF Emits(prHasSink, prSize)
            THEN /\ prSinkCalls' = prSinkCalls + 1
                 /\ prPrevPct' = prLastPct
                 /\ prLastPct' = Pct(prRead', prSize)
            ELSE UNCHANGED <<prSinkCalls, prPrevPct, prLastPct>>
       /\ retN' = ReadReturn(n, e)[1]
       /\ retErr' = ReadReturn(n, e)[2]
  /\ prCalls' = prCalls + 1
  /\ UNCHANGED <<prSize, prHasSink, srcTotal>>

PipeIdle ==
  /\ InitPipe
  /\ filePath = <<>>
  /\ urlGiven = FALSE

InitPR == PipeIdle /\ PRStart

NextPR == PRRead /\ UNCHANGED pipeVars

SpecPR == InitPR /\ [][NextPR]_vars

\* ================================================================ claims

InSteps(name) == \E i \in 1..Len(steps) : steps[i] = name

StepFailures == {"open", "stat", "createPart", "read", "newRequest", "send", "readResp"}

\* A reference multipart receiver: the body ends at the first closing
\* delimiter; every delimiter line before it starts a part, whose header
\* runs to the blank line and whose content runs to the next delimiter.
Decode(b) ==
  LET closes == {i \in 1..Len(b) : b[i].k = "close"}
      end    == IF closes = {} THEN Len(b) + 1 ELSE Min(closes)
      starts == {i \in 1..(end - 1) : b[i].k = "delim"}
      PartAt(i) ==
        LET nxt   == Min({j \in starts \cup {end} : j > i})
            blank == Min({j \in (i + 1)..nxt : j = nxt \/ b[j].k = "blank"})
            disp  == {j \in (i + 1)..(blank - 1) : b[j].k = "disposition"}
        IN  [name     |-> IF disp = {} THEN "" ELSE b[Min(disp)].n,
             filename |-> IF disp = {} THEN <<>> ELSE b[Min(disp)].s,
             content  |-> [j \in 1..(nxt - blank - 1) |-> b[blank + j].v]]
  IN  [terminated |-> closes # {},
       count      |-> Cardinality(starts),
       parts      |-> {PartAt(i) : i \in starts}]

\* name is the last slash-free component of path (or "/" when path is
\* slashes only)
IsBaseOf(name, path) ==
  \/ /\ path # <<>>
     /\ \A k \in 1..Len(path) : path[k] = "/"
     /\ name = <<"/">>
  \/ \E i \in 1..Len(path), j \in 1..Len(path) :
       /\ i <= j
       /\ name = SubSeq(path, i, j)
       /\ \A k \in i..j : path[k] # "/"
       /\ i = 1 \/ path[i - 1] = "/"
       /\ \A k \in (j + 1)..Len(path) : path[k] = "/"

\* C1 (as stated; refuted): whenever an error has been printed or main has
\* ended, every resource acquired so far (the open file, the response body)
\* has been released.
C1_ReleasedOnEveryExit ==
  (errKind # "" \/ pc \in {"exited", "done"}) =>
     /\ fileOpened => fileClosed
     /\ respObtained => respClosed

\* C2: with both flags given, a run that reaches Reporting never exits
\* non-zero and ends with exit status 0 for every status code; a non-zero
\* exit status comes only from a failed step before Reporting.
C2_ExitStatus ==
  (filePath # <<>> /\ urlGiven) =>
     /\ InSteps("Reporting") => exitCode \in {-1, 0} /\ errKind = ""
     /\ pc = "done" => exitCode = 0 /\ InSteps("Reporting")
     /\ exitCode = 0 => pc = "done"
     /\ exitCode \notin {-1, 0} =>
          /\ errKind \in StepFailures
          /\ ~InSteps("Reporting")
          /\ pc = "exited"

C2_Witness ==
  /\ pc = "done"
  /\ statusCode = 500
  /\ exitCode = 0
  /\ Len(respData) > 0
  /\ printedBody = respData

\* C3 (as stated; refuted): once reported, the outcome is "success"
\* exactly for the status codes 200..299, and the printed body is the body
\* the server sent.
C3_SuccessRange ==
  reported # "" =>
     /\ (reported = "success") <=> (statusCode \in 200..299)
     /\ printedBody = respData

\* C4: the response body is read through the metered reader exactly when
\* the declared content length is > 0; a plain read never updates the
\* download bar; after a metered body has been read to its end the bar's
\* byte count equals the declared content length.
C4_MeteredIffLengthKnown ==
  /\ metered = "none" => bar2Updates = 0 /\ bar2Count = 0
  /\ metered # "none" => ((metered = "metered") <=> (contentLength > 0))
  /\ metered = "plain" => bar2Updates = 0 /\ bar2Count = 0
  /\ (metered = "metered" /\ pc \in {"report", "return", "done"}) =>
       /\ bar2Count = contentLength
       /\ bar2Updates > 0

C4_Witness ==
  /\ pc = "done"
  /\ metered = "metered"
  /\ contentLength > 1
  /\ bar2Count = contentLength
  /\ bar2Updates > 1

\* C5: the steps entered are always an initial part of Opening, Encoding,
\* Sending, Receiving, Reporting; client.Do is called at most once; after a
\* failed send the run has ended and Receiving and Reporting were never
\* entered.
C5_StrictOrder ==
  /\ Len(steps) <= Len(StepOrder)
  /\ \A i \in 1..Len(steps) : i <= Len(StepOrder) => steps[i] = StepOrder[i]
  /\ requests <= 1
  /\ requests = 1 => InSteps("Sending")
  /\ errKind = "send" =>
       /\ pc = "exited"
       /\ ~InSteps("Receiving")
       /\ ~InSteps("Reporting")
       /\ ~respObtained

C5_Witness ==
  /\ errKind = "send"
  /\ pc = "exited"
  /\ requests = 1
  /\ steps = <<"Opening", "Encoding", "Sending">>

\* C6: the reader's byte count always equals the number of bytes the
\* source has delivered, so it equals the source size S once the source
\* has reported end-of-stream (also when the last bytes came with it), and
\* every Read returns the n and status of the underlying read.
C6_DrainCountsAll ==
  /\ prRead = srcTotal - srcLeft
  /\ retErr = "EOF" => prRead = srcTotal
  /\ retN = srcN
  /\ retErr = srcErr

C6_Witness ==
  /\ retErr = "EOF"
  /\ srcN > 0
  /\ prCalls > 1
  /\ srcTotal > 1
  /\ prRead = srcTotal

\* C7 (as stated; refuted): with Size > 0 the byte count and the emitted
\* percentage never decrease, the byte count never exceeds Size and the
\* percentage never exceeds 100, whatever the source delivers.
C7_BoundedMonotone ==
  prSize > 0 =>
     /\ prPrevRead <= prRead
     /\ prRead <= prSize
     /\ prLastPct # -1 => prPrevPct <= prLastPct /\ prLastPct <= 100

\* C8: with Size <= 0 the progress sink is never called, and the byte count
\* still equals the bytes delivered, hence the source size after draining.
C8_UnknownSizeSilent ==
  prSize <= 0 =>
     /\ prSinkCalls = 0
     /\ prLastPct = -1
     /\ prRead = srcTotal - srcLeft
     /\ retErr = "EOF" => prRead = srcTotal

C8_Witness ==
  /\ prSize <= 0
  /\ prHasSink
  /\ retErr = "EOF"
  /\ prCalls > 1
  /\ srcTotal > 1
  /\ prRead = srcTotal
  /\ prSinkCalls = 0

\* C9: from the moment the writer is closed (so before the request is
\* created and sent) the body decodes to exactly one part, named "file",
\* whose filename is the base name of the source path and whose content is
\* the file's bytes in order; while the file is being copied the single
\* part holds the bytes read so far.
C9_RoundTrip ==
  LET d == Decode(body) IN
  /\ pc \in {"copy", "closeWriter"} =>
       /\ ~d.terminated
       /\ d.parts = {[name |-> "file", filename |-> fileName,
                      content |-> SubSeq(fileContent, 1, filePos)]}
  /\ (pc = "newRequest" \/ InSteps("Sending") \/ requests > 0) =>
       /\ d.terminated
       /\ d.count = 1
       /\ \A p \in d.parts :
            /\ p.name = "file"
            /\ IsBaseOf(p.filename, filePath)
            /\ p.content = fileContent

C9_Witness ==
  /\ requests = 1
  /\ Len(fileContent) > 1
  /\ fileContent[1] # fileContent[2]
  /\ filePath = <<"/", "a">>
  /\ Decode(body).parts = {[name |-> "file", filename |-> <<"a">>, content |-> fileContent]}

====
